---- MODULE Spec2Model ----
(***************************************************************************)
(* A model of pyrr/matrix44.py: the 4x4 matrix constructors, the 3x3 view, *)
(* apply_to_vector and multiply.                                           *)
(*                                                                         *)
(* An ndarray value is a record [shape, data]: shape is the tuple numpy    *)
(* reports and data the nested sequences of its elements.  Element values  *)
(* are integers; the results of apply_to_vector, which numpy computes in   *)
(* floating point and may divide, are exact rationals <<num, den>> in      *)
(* lowest terms with den > 0 (rounding is not modelled).                   *)
(* Indices are 1-based: the source's mat[ 3, 0:3 ] is row 4, columns 1..3. *)
(***************************************************************************)
EXTENDS Integers, Sequences, FiniteSets, TLC

VARIABLES
    call,            \* the last call made: its name and its arguments
    ret,             \* what that call did: returned value or raised error
    mem,             \* the buffers allocated so far, by buffer id
    arrs,            \* the array objects the caller holds: buffer and shape
    nwrites,         \* how many element stores the caller has made
    elementwiseNone  \* the installed numpy compares an array to None elementwise

vars == <<call, ret, mem, arrs, nwrites, elementwiseNone>>

----------------------------------------------------------------------------
(* Bounds of the model.                                                    *)

\* Coordinates of argument vectors range over -1..MaxCoord.
MaxCoord == 2

\* Argument vectors have 0..MaxVecLen elements.
MaxVecLen == 5

\* Batches hold 2..MaxBatch vectors or matrices.
MaxBatch == 2

\* The caller holds at most MaxArrs array objects.
MaxArrs == 2

\* The caller makes at most MaxWrites element stores.
MaxWrites == 1

----------------------------------------------------------------------------
(* Numbers.                                                                *)

Abs(n) == IF n < 0 THEN -n ELSE n

RECURSIVE Gcd(_, _)
Gcd(a, b) == IF b = 0 THEN a ELSE Gcd(b, a % b)

\* A float holding the integer n.
Float(n) == <<n, 1>>

\* n / d for d # 0, as numpy's true division gives it.
TrueDivide(n, d) ==
    LET g == Gcd(Abs(n), Abs(d))
        s == IF d < 0 THEN -1 ELSE 1
    IN  <<(s * n) \div g, (s * d) \div g>>

----------------------------------------------------------------------------
(* ndarray values.                                                         *)

Array1(d) == [shape |-> <<Len(d)>>, data |-> d]

Array2(rows) == [shape |-> <<Len(rows), Len(rows[1])>>, data |-> rows]

Array3(mats) ==
    [shape |-> <<Len(mats), Len(mats[1]), Len(mats[1][1])>>, data |-> mats]

\* An empty 1-d array (numpy.array([])).
EmptyArray == [shape |-> <<0>>, data |-> <<>>]

RECURSIVE Product(_)
Product(s) == IF s = <<>> THEN 1 ELSE Head(s) * Product(Tail(s))

\* ndarray.size
Size(a) == Product(a.shape)

Rank(a) == Len(a.shape)

\* The sum of f[1] .. f[n].
RECURSIVE SumTo(_, _)
SumTo(f, n) == IF n = 0 THEN 0 ELSE f[n] + SumTo(f, n - 1)

\* RowDot with the matrix applied from the left, as m . v (column vectors).
RowDot_ColumnVector(v, m) ==
    [j \in 1..Len(m[1]) |-> SumTo([k \in 1..Len(v) |-> v[k] * m[j][k]], Len(v))]

\* The row vector v times the matrix m (sequences): (v . m)[j] = sum_k v[k] m[k][j].
RowDot(v, m) ==
    [j \in 1..Len(m[1]) |-> SumTo([k \in 1..Len(v) |-> v[k] * m[k][j]], Len(v))]

\* The matrix product of two matrices given as sequences of rows.
MatDot(a, b) == [i \in 1..Len(a) |-> RowDot(a[i], b)]

\* numpy.dot( a, b ) for the shapes the module passes it: a 1-d with b 2-d,
\* a 1-d with b a stack of matrices (sum over a's axis and b's second-to-last
\* axis), and a 2-d with b 2-d.
dot(a, b) ==
    CASE Rank(a) = 1 /\ Rank(b) = 2 -> Array1(RowDot(a.data, b.data))
      [] Rank(a) = 1 /\ Rank(b) = 3 ->
            Array2([n \in 1..b.shape[1] |-> RowDot(a.data, b.data[n])])
      [] Rank(a) = 2 /\ Rank(b) = 2 -> Array2(MatDot(a.data, b.data))

\* a[-1]: the last item along the first axis, one rank lower.
LastItem(a) ==
    [shape |-> Tail(a.shape), data |-> a.data[a.shape[1]]]

\* a[:-1]: all but the last item along the first axis.
ButLast(a) ==
    [shape |-> <<a.shape[1] - 1>> \o Tail(a.shape),
     data |-> SubSeq(a.data, 1, a.shape[1] - 1)]

\* a != 0.0: a boolean for a scalar (rank 0), a boolean array for a 1-d array.
NotEqualZero(a) ==
    IF Rank(a) = 0
    THEN [shape |-> <<>>, data |-> a.data # 0]
    ELSE [shape |-> a.shape, data |-> [i \in 1..a.shape[1] |-> a.data[i] # 0]]

\* bool( b ), as `if` and `or` take it: the boolean of a scalar or of a
\* one-element array; an array of several elements raises ValueError ("The
\* truth value of an array with more than one element is ambiguous").
Truth(b) ==
    CASE Rank(b) = 0 -> IF b.data THEN "True" ELSE "False"
      [] Rank(b) > 0 /\ Size(b) = 1 ->
            IF Rank(b) = 1
            THEN (IF b.data[1] THEN "True" ELSE "False")
            ELSE (IF b.data[1][1] THEN "True" ELSE "False")
      [] Rank(b) > 0 /\ Size(b) > 1 -> "ValueError"

\* What a function did: it returned a value, or it raised.
Returned(v) == [status |-> "ok", value |-> v]

Raised(e) == [status |-> e, value |-> EmptyArray]

----------------------------------------------------------------------------
(* The constructors, on values: a matrix is the sequence of its rows.      *)

\* numpy.identity( 4 )
create_identity ==
    [i \in 1..4 |-> [j \in 1..4 |-> IF i = j THEN 1 ELSE 0]]

\* AssignBlock33 storing the transpose of m33.
AssignBlock33_Transposed(mat, m33) ==
    [i \in 1..4 |-> [j \in 1..4 |->
        IF i <= 3 /\ j <= 3 THEN m33[j][i] ELSE mat[i][j]]]

\* mat[ 0:3, 0:3 ] = m33: the nine entries of m33 are copied into mat.
AssignBlock33(mat, m33) ==
    [i \in 1..4 |-> [j \in 1..4 |->
        IF i <= 3 /\ j <= 3 THEN m33[i][j] ELSE mat[i][j]]]

create_from_matrix33(mat) == AssignBlock33(create_identity, mat)

\* Each rotation constructor takes here the 3x3 matrix the matrix33 module
\* returned for its argument (the source's mat33).
create_from_eulers(mat33) == AssignBlock33(create_identity, mat33)

create_from_quaternion(mat33) == AssignBlock33(create_identity, mat33)

create_from_inverse_of_quaternion(mat33) == AssignBlock33(create_identity, mat33)

create_from_x_rotation(mat33) == AssignBlock33(create_identity, mat33)

create_from_y_rotation(mat33) == AssignBlock33(create_identity, mat33)

create_from_z_rotation(mat33) == AssignBlock33(create_identity, mat33)

\* create_from_translation storing the translation in the last column.
create_from_translation_LastColumn(vec) ==
    LET mat == create_identity
    IN  [i \in 1..4 |-> [j \in 1..4 |->
            IF j = 4 /\ i <= 3 THEN vec[i] ELSE mat[i][j]]]

\* mat[ 3, 0:3 ] = vec[:3]
create_from_translation(vec) ==
    LET mat == create_identity
    IN  [mat EXCEPT ![4] = [j \in 1..4 |-> IF j <= 3 THEN vec[j] ELSE mat[4][j]]]

\* numpy.diagflat( [ scale[ 0 ], scale[ 1 ], scale[ 2 ], 1.0 ] )
create_from_scale(scale) ==
    LET diag == <<scale[1], scale[2], scale[3], 1>>
    IN  [i \in 1..4 |-> [j \in 1..4 |-> IF i = j THEN diag[i] ELSE 0]]

----------------------------------------------------------------------------
(* apply_to_vector.                                                        *)

\* An integer array as the float array numpy computes with (rank 1 or 2).
AsFloat(a) ==
    IF Rank(a) = 1
    THEN [shape |-> a.shape, data |-> [i \in 1..a.shape[1] |-> Float(a.data[i])]]
    ELSE [shape |-> a.shape,
          data |-> [n \in 1..a.shape[1] |->
                        [i \in 1..a.shape[2] |-> Float(a.data[n][i])]]]

\* vec4 /= w, for a 1-d vec4 and a scalar w # 0: every component is divided.
DivideBy(a, w) ==
    [shape |-> a.shape, data |-> [i \in 1..a.shape[1] |-> TrueDivide(a.data[i], w)]]

\* ApplySize3 without the homogeneous divide.
ApplySize3_NoDivide(mat, vec) ==
    LET vec4 == Array1(<<vec.data[1], vec.data[2], vec.data[3], 1>>)
    IN  Returned(ButLast(AsFloat(dot(vec4, mat))))

\* The branch for vec.size == 3.
ApplySize3(mat, vec) ==
    LET vec4 == Array1(<<vec.data[1], vec.data[2], vec.data[3], 1>>)
        prod == dot(vec4, mat)
        w    == LastItem(prod)
        test == Truth(NotEqualZero(w))
    IN  CASE test = "ValueError" -> Raised("ValueError")
          [] test = "True"  -> Returned(ButLast(DivideBy(prod, w.data)))
          [] test = "False" -> Returned(ButLast(AsFloat(prod)))

\* ApplySize4 with the homogeneous divide of the 3-element branch.
ApplySize4_Divide(mat, vec) ==
    LET prod == dot(vec, mat)
        w    == LastItem(prod)
    IN  IF Rank(prod) = 1 /\ w.data # 0
        THEN Returned(DivideBy(prod, w.data))
        ELSE Returned(AsFloat(prod))

\* The branch for vec.size == 4.
ApplySize4(mat, vec) == Returned(AsFloat(dot(vec, mat)))

\* What apply_to_vector returns or raises.
ApplyOutcome(mat, vec) ==
    IF Size(vec) = 3 THEN ApplySize3(mat, vec)
    ELSE IF Size(vec) = 4 THEN ApplySize4(mat, vec)
    ELSE Raised("ValueError")

\* apply_to_vector( mat, vec ): its outcome, and the contents of its two
\* arguments when it ends (it stores into neither: vec4 is a fresh array).
apply_to_vector(mat, vec) ==
    LET o == ApplyOutcome(mat, vec)
    IN  [status |-> o.status, value |-> o.value, mat |-> mat, vec |-> vec]

----------------------------------------------------------------------------
(* multiply.                                                               *)

\* The out argument: None, or an array.
NoneValue == [isNone |-> TRUE, shape |-> <<>>, data |-> <<>>]

OutArray(a) == [isNone |-> FALSE, shape |-> a.shape, data |-> a.data]

\* out == m, for m a 2-d array and out None or an array of m's shape.  Two
\* arrays compare element by element, giving a boolean array.  None against
\* an array gives the scalar False under a numpy that treats None as
\* incomparable, and an array of False under one that compares elementwise.
Equal(out, m, elementwise) ==
    IF out.isNone
    THEN IF elementwise
         THEN [shape |-> m.shape,
               data |-> [i \in 1..m.shape[1] |-> [j \in 1..m.shape[2] |-> FALSE]]]
         ELSE [shape |-> <<>>, data |-> FALSE]
    ELSE [shape |-> m.shape,
          data |-> [i \in 1..m.shape[1] |-> [j \in 1..m.shape[2] |->
                        out.data[i][j] = m.data[i][j]]]]

\* The test `out == m1 or out == m2`: "True", "False", or the ValueError
\* that taking the truth of an array raises.
OutIsInput(m1, m2, out, elementwise) ==
    LET first == Truth(Equal(out, m1, elementwise))
    IN  IF first = "False" THEN Truth(Equal(out, m2, elementwise)) ELSE first

\* multiply( m1, m2, out ): the product numpy.dot computes, or the ValueError
\* raised by the test or by the `raise` under it.
MultiplyOutcome(m1, m2, out, elementwise) ==
    IF OutIsInput(m1, m2, out, elementwise) = "False"
    THEN Returned(dot(m1, m2))
    ELSE Raised("ValueError")

\* The out argument of a call: None ("none"), the array passed as m1 ("m1"),
\* the array passed as m2 ("m2"), or another array of the caller's, holding
\* zeros ("zeros") or a copy of m1 ("copy").
OutKinds == {"none", "m1", "m2", "zeros", "copy"}

OutValue(kind, m1, m2) ==
    CASE kind = "none"  -> NoneValue
      [] kind = "m1"    -> OutArray(m1)
      [] kind = "m2"    -> OutArray(m2)
      [] kind = "zeros" -> OutArray(Array2([i \in 1..4 |-> [j \in 1..4 |-> 0]]))
      [] kind = "copy"  -> OutArray(m1)

\* multiply( m1, m2, out ): its outcome, and the contents of m1 and m2 when
\* it ends.  numpy.dot returns a new array when out is None; otherwise it
\* stores the product in out and returns out, so an input passed as out
\* holds the product afterwards.
multiply(m1, m2, kind, elementwise) ==
    LET o == MultiplyOutcome(m1, m2, OutValue(kind, m1, m2), elementwise)
    IN  [status |-> o.status, value |-> o.value,
         m1 |-> IF o.status = "ok" /\ kind = "m1" THEN o.value ELSE m1,
         m2 |-> IF o.status = "ok" /\ kind = "m2" THEN o.value ELSE m2]

----------------------------------------------------------------------------
(* The arguments the calls are made with.                                  *)

Coord == -1..MaxCoord

\* Sequences of n elements: every coordinate for n <= 4, 0 and 1 beyond.
SeqsOfLen(n) == [1..n -> IF n <= 4 THEN Coord ELSE {0, 1}]

\* 1-d argument vectors of 0..MaxVecLen elements.
VecArgs == {Array1(d) : d \in UNION {SeqsOfLen(n) : n \in 0..MaxVecLen}}

BatchRows3 == {<<1, 2, 3>>, <<0, 0, 0>>, <<2, -1, 1>>}

BatchRows4 == {<<1, 2, 3, 1>>, <<2, -1, 1, 0>>}

\* Batches of N >= 2 vectors: arrays of shape (N, 3) and (N, 4).
VecBatchArgs ==
    {Array2(b) : b \in UNION {[1..n -> BatchRows3] \cup [1..n -> BatchRows4] :
                                n \in 2..MaxBatch}}

\* Translation and scale vectors of 3 elements, and of 4 with a last element
\* that the constructors must not read.
TransArgs == SeqsOfLen(3) \cup {t \o <<999>> : t \in SeqsOfLen(3)}

ScaleArgs == {<<2, 3, 4>>, <<1, 1, 1>>, <<-1, 2, 0>>}

\* 3x3 matrices the matrix33 module returns: the quarter turns about the axes.
Rot3 ==
    { << <<1, 0, 0>>, <<0, 1, 0>>, <<0, 0, 1>> >>,
      << <<1, 0, 0>>, <<0, 0, -1>>, <<0, 1, 0>> >>,
      << <<0, 0, 1>>, <<0, 1, 0>>, <<-1, 0, 0>> >>,
      << <<0, -1, 0>>, <<1, 0, 0>>, <<0, 0, 1>> >> }

\* 3x3 matrices a caller passes to create_from_matrix33.
M33Args == Rot3 \cup { << <<1, 2, 3>>, <<4, 5, 6>>, <<7, 8, 9>> >> }

\* Single 4x4 matrices: what the constructors return, a matrix whose product
\* has w = 2, two projective ones whose w depends on the vector (w = -z, and
\* w = x + y + 1), a dense one, and the zero matrix.
MatValues ==
    {create_identity}
    \cup {create_from_translation(t) : t \in TransArgs}
    \cup {create_from_scale(s) : s \in ScaleArgs}
    \cup {create_from_matrix33(m) : m \in M33Args}
    \cup { [create_identity EXCEPT ![4][4] = 2],
           << <<1, 0, 0, 0>>, <<0, 1, 0, 0>>, <<0, 0, 1, -1>>, <<0, 0, 2, 0>> >>,
           << <<1, 0, 0, 1>>, <<0, 2, 0, 1>>, <<0, 0, 1, 0>>, <<1, 2, 3, 1>> >>,
           << <<1, 2, 3, 4>>, <<5, 6, 7, 8>>, <<-1, 0, 2, 1>>, <<3, 1, 0, -2>> >>,
           [i \in 1..4 |-> [j \in 1..4 |-> 0]] }

MatArgs == {Array2(m) : m \in MatValues}

BatchMats ==
    { create_identity,
      create_from_translation(<<1, 2, 3>>),
      [create_identity EXCEPT ![4][4] = 2] }

\* Batches of N >= 2 matrices: arrays of shape (N, 4, 4).
MatBatchArgs ==
    {Array3(b) : b \in UNION {[1..n -> BatchMats] : n \in 2..MaxBatch}}

----------------------------------------------------------------------------
(* The calls of the pure functions.                                        *)

NoCall == [op |-> "none", args |-> <<>>]

InitHeap ==
    /\ call = NoCall
    /\ ret = Returned(EmptyArray)
    /\ mem = <<>>
    /\ arrs = <<>>
    /\ nwrites = 0
    /\ elementwiseNone = TRUE

Init ==
    /\ call = NoCall
    /\ ret = Returned(EmptyArray)
    /\ mem = <<>>
    /\ arrs = <<>>
    /\ nwrites = 0
    /\ elementwiseNone \in BOOLEAN

HeapUnchanged == UNCHANGED <<mem, arrs, nwrites, elementwiseNone>>

\* Each behaviour of the pure functions makes one call, from the state in
\* which none has been made: a call depends on nothing an earlier one did.
Idle == call = NoCall

\* A call of a constructor that returns the matrix m.
Construct(op, args, m) ==
    /\ call' = [op |-> op, args |-> args]
    /\ ret' = Returned(Array2(m))
    /\ HeapUnchanged

CallApplyToVector ==
    /\ Idle
    /\ \E m \in MatArgs \cup MatBatchArgs, v \in VecArgs \cup VecBatchArgs :
        /\ call' = [op |-> "apply_to_vector", args |-> <<m, v>>]
        /\ ret' = apply_to_vector(m, v)
        /\ HeapUnchanged

\* Pairs of the constructors' matrices and the dense one, with every out.
MultiplyArgs ==
    { Array2(create_identity),
      Array2(create_from_translation(<<1, 2, 3>>)),
      Array2(create_from_scale(<<2, 3, 4>>)),
      Array2(create_from_matrix33(CHOOSE m \in M33Args : m[1][1] = 1 /\ m[1][2] = 2)),
      Array2(<< <<1, 2, 3, 4>>, <<5, 6, 7, 8>>, <<-1, 0, 2, 1>>, <<3, 1, 0, -2>> >>) }

CallMultiply ==
    /\ Idle
    /\ \E m1, m2 \in MultiplyArgs, kind \in OutKinds :
        /\ call' = [op |-> "multiply", args |-> <<m1, m2, kind>>]
        /\ ret' = multiply(m1, m2, kind, elementwiseNone)
        /\ HeapUnchanged

CallCreateIdentity ==
    Idle /\ Construct("create_identity", <<>>, create_identity)

CallCreateFromMatrix33 ==
    Idle /\ \E m \in M33Args : Construct("create_from_matrix33", <<m>>, create_from_matrix33(m))

CallCreateFromEulers ==
    Idle /\ \E m \in Rot3 : Construct("create_from_eulers", <<m>>, create_from_eulers(m))

CallCreateFromQuaternion ==
    Idle /\ \E m \in Rot3 : Construct("create_from_quaternion", <<m>>, create_from_quaternion(m))

CallCreateFromInverseOfQuaternion ==
    Idle /\ \E m \in Rot3 : Construct("create_from_inverse_of_quaternion", <<m>>,
                              create_from_inverse_of_quaternion(m))

CallCreateFromXRotation ==
    Idle /\ \E m \in Rot3 : Construct("create_from_x_rotation", <<m>>, create_from_x_rotation(m))

CallCreateFromYRotation ==
    Idle /\ \E m \in Rot3 : Construct("create_from_y_rotation", <<m>>, create_from_y_rotation(m))

CallCreateFromZRotation ==
    Idle /\ \E m \in Rot3 : Construct("create_from_z_rotation", <<m>>, create_from_z_rotation(m))

CallCreateFromTranslation ==
    Idle /\ \E v \in TransArgs :
        Construct("create_from_translation", <<v>>, create_from_translation(v))

CallCreateFromScale ==
    Idle /\ \E s \in ScaleArgs : Construct("create_from_scale", <<s>>, create_from_scale(s))

Next ==
    \/ CallApplyToVector
    \/ CallMultiply
    \/ CallCreateIdentity
    \/ CallCreateFromMatrix33
    \/ CallCreateFromEulers
    \/ CallCreateFromQuaternion
    \/ CallCreateFromInverseOfQuaternion
    \/ CallCreateFromXRotation
    \/ CallCreateFromYRotation
    \/ CallCreateFromZRotation
    \/ CallCreateFromTranslation
    \/ CallCreateFromScale

Spec == Init /\ [][Next]_vars

----------------------------------------------------------------------------
(* Properties of the pure functions, checked under Spec.                   *)

IsApply == call.op = "apply_to_vector"

ArgMat == call.args[1]

ArgVec == call.args[2]

\* p/q = n/d, for q # 0 and d # 0, by cross-multiplication.
RatEq(r, n, d) == r[2] > 0 /\ r[1] * d = n * r[2]

\* The j-th component of [x, y, z, 1] . m.
Homogeneous(v, m, j) == v[1] * m[1][j] + v[2] * m[2][j] + v[3] * m[3][j] + m[4][j]

\* C1: apply_to_vector of one matrix and a 3-component vector returns exactly
\* 3 components of r = [x, y, z, 1] . mat: r0/r3, r1/r3, r2/r3 when r3 is not
\* zero, and r0, r1, r2 undivided when r3 is zero.
C1_HomogeneousDivide ==
    (IsApply /\ Rank(ArgMat) = 2 /\ ArgVec.shape = <<3>>) =>
        LET w == Homogeneous(ArgVec.data, ArgMat.data, 4)
        IN  /\ ret.status = "ok"
            /\ ret.value.shape = <<3>>
            /\ Len(ret.value.data) = 3
            /\ \A i \in 1..3 :
                LET ri == Homogeneous(ArgVec.data, ArgMat.data, i)
                IN  IF w # 0 THEN RatEq(ret.value.data[i], ri, w)
                    ELSE ret.value.data[i] = <<ri, 1>>

\* A 3-component vector whose product has w = 2 came back halved.
C1_Witness ==
    /\ IsApply /\ Rank(ArgMat) = 2 /\ ArgVec.shape = <<3>>
    /\ Homogeneous(ArgVec.data, ArgMat.data, 4) = 2
    /\ ret.status = "ok"
    /\ ret.value.data = << <<1, 2>>, <<1, 1>>, <<-1, 2>> >>

\* A 3-component vector whose product has w = 0 came back undivided.
C1_WitnessZeroW ==
    /\ IsApply /\ Rank(ArgMat) = 2 /\ ArgVec.shape = <<3>>
    /\ Homogeneous(ArgVec.data, ArgMat.data, 4) = 0
    /\ ret.status = "ok"
    /\ ret.value.data = << <<1, 1>>, <<2, 1>>, <<2, 1>> >>

\* The number of items a batched call is given.
BatchCount == IF Rank(ArgVec) = 2 THEN ArgVec.shape[1] ELSE ArgMat.shape[1]

\* The i-th matrix and the i-th vector of a batched call.
BatchMat(i) == IF Rank(ArgMat) = 3 THEN Array2(ArgMat.data[i]) ELSE ArgMat

BatchVec(i) == IF Rank(ArgVec) = 2 THEN Array1(ArgVec.data[i]) ELSE ArgVec

\* One matrix with a batch of vectors, or a batch of matrices with one vector.
IsBatched ==
    /\ IsApply
    /\ \/ Rank(ArgMat) = 2 /\ Rank(ArgVec) = 2
       \/ Rank(ArgMat) = 3 /\ Rank(ArgVec) = 1 /\ Size(ArgVec) \in {3, 4}

\* C4: apply_to_vector of a batch of N >= 2 vectors (or of N >= 2 matrices)
\* does not fail and returns N results, the i-th being what it returns for
\* the i-th matrix and vector alone.
C4_BatchedApply ==
    IsBatched =>
        /\ ret.status = "ok"
        /\ ret.value.shape[1] = BatchCount
        /\ \A i \in 1..BatchCount :
            ret.value.data[i] = ApplyOutcome(BatchMat(i), BatchVec(i)).value.data

C7_TranslationRow ==
    call.op = "create_from_translation" =>
        /\ ret.status = "ok"
        /\ ret.value.shape = <<4, 4>>
        /\ \A i, j \in 1..4 :
            ret.value.data[i][j] =
                IF i = 4 /\ j <= 3 THEN call.args[1][j]
                ELSE IF i = j THEN 1 ELSE 0

\* A non-zero translation of length 4 was made into a matrix.
C7_Witness ==
    /\ call.op = "create_from_translation"
    /\ call.args[1] = <<1, 2, -1, 999>>
    /\ ret.value.data[4] = <<1, 2, -1, 1>>

\* C8: apply_to_vector(create_from_translation([tx, ty, tz]), [x, y, z]) is
\* [x + tx, y + ty, z + tz], and apply_to_vector(identity, [x, y, z]) is
\* [x, y, z].
C8_TranslationApplied ==
    (IsApply /\ Rank(ArgMat) = 2 /\ ArgVec.shape = <<3>>) =>
        LET t == SubSeq(ArgMat.data[4], 1, 3)
            v == ArgVec.data
        IN  /\ ArgMat.data = create_from_translation(t) =>
                /\ ret.status = "ok"
                /\ ret.value.data =
                       <<Float(v[1] + t[1]), Float(v[2] + t[2]), Float(v[3] + t[3])>>
            /\ ArgMat.data = create_identity =>
                /\ ret.status = "ok"
                /\ ret.value.data = <<Float(v[1]), Float(v[2]), Float(v[3])>>

\* A point was moved by a translation that is not zero in any component.
C8_Witness ==
    /\ IsApply /\ Rank(ArgMat) = 2
    /\ ArgMat.data = create_from_translation(<<1, 2, -1>>)
    /\ ArgVec = Array1(<<2, -1, 1>>)
    /\ ret.value.data = << <<3, 1>>, <<1, 1>>, <<0, 1>> >>

RotationConstructors ==
    { "create_from_eulers", "create_from_quaternion",
      "create_from_inverse_of_quaternion", "create_from_x_rotation",
      "create_from_y_rotation", "create_from_z_rotation" }

\* C9: each rotation constructor, and create_from_matrix33, returns a matrix
\* whose top-left 3x3 block is the 3x3 matrix it was supplied and whose row 3
\* and column 3 are those of the identity.
C9_RotationBlock ==
    call.op \in RotationConstructors \cup {"create_from_matrix33"} =>
        /\ ret.status = "ok"
        /\ ret.value.shape = <<4, 4>>
        /\ \A i, j \in 1..3 : ret.value.data[i][j] = call.args[1][i][j]
        /\ \A i \in 1..3 : ret.value.data[i][4] = 0 /\ ret.value.data[4][i] = 0
        /\ ret.value.data[4][4] = 1

\* A rotation constructor embedded a quarter turn, which is not symmetric.
C9_Witness ==
    /\ call.op \in RotationConstructors
    /\ call.args[1] = << <<1, 0, 0>>, <<0, 0, -1>>, <<0, 1, 0>> >>
    /\ ret.value.data[2][3] = -1
    /\ ret.value.data[3][2] = 1

\* The (i, j) entry of the matrix product m1 . m2 of two 4x4 matrices.
ProductEntry(m1, m2, i, j) ==
    m1[i][1] * m2[1][j] + m1[i][2] * m2[2][j] + m1[i][3] * m2[3][j] + m1[i][4] * m2[4][j]

\* C2: multiply with an out that is m1 or m2 raises ValueError and leaves
\* both inputs as they were; a call without out, or with an out that is
\* another array, is not refused.
C2_OutputAliasing ==
    call.op = "multiply" =>
        /\ call.args[3] \in {"m1", "m2"} =>
            /\ ret.status = "ValueError"
            /\ ret.m1 = call.args[1]
            /\ ret.m2 = call.args[2]
        /\ call.args[3] \in {"none", "zeros", "copy"} => ret.status = "ok"

\* C3: multiply without out returns the matrix product m1 . m2, so that
\* multiply(A, identity) is A.
C3_MatrixProduct ==
    (call.op = "multiply" /\ call.args[3] = "none") =>
        /\ ret.status = "ok"
        /\ ret.value.shape = <<4, 4>>
        /\ \A i, j \in 1..4 :
            ret.value.data[i][j] =
                ProductEntry(call.args[1].data, call.args[2].data, i, j)
        /\ call.args[2].data = create_identity => ret.value = call.args[1]

----------------------------------------------------------------------------
(* Arrays as objects: buffers, views and stores.                           *)
(*                                                                         *)
(* mem[b] is the content of buffer b, a matrix.  An array object is        *)
(* [buf, shape, of]: the buffer it reads and writes, its shape and, for    *)
(* the result of create_matrix33_view, the index in arrs of the array it   *)
(* was taken of (0 for every other array).  Element [i][j] of an object is *)
(* element [i][j] of its buffer: a 3x3 view of a 4x4 array starts at the   *)
(* array's first element and keeps its strides.                            *)

\* Alloc reusing the latest buffer of the same shape, as a cached array would.
Alloc_Cached(m, val) ==
    LET same == {b \in 1..Len(m) : Len(m[b]) = Len(val)}
    IN  IF same = {}
        THEN [mem |-> Append(m, val), buf |-> Len(m) + 1]
        ELSE LET b == CHOOSE x \in same : \A y \in same : y <= x
             IN  [mem |-> [m EXCEPT ![b] = val], buf |-> b]

\* A new array holding val: numpy.identity, numpy.diagflat and numpy.dot
\* each allocate a buffer of their own.
Alloc(m, val) == [mem |-> Append(m, val), buf |-> Len(m) + 1]

\* mat[ 0:3, 0:3 ] as a copy of the nine entries.
View33_Copy(m, a) ==
    Alloc(m, [i \in 1..3 |-> [j \in 1..3 |-> m[a.buf][i][j]]])

\* mat[ 0:3, 0:3 ]: basic slicing allocates nothing and yields an array on
\* the buffer of mat.
View33(m, a) == [mem |-> m, buf |-> a.buf]

\* The elements of an array object, as the sequence of its rows.
ValueOf(a) ==
    [i \in 1..a.shape[1] |-> [j \in 1..a.shape[2] |-> mem[a.buf][i][j]]]

IsMatrix44(k) == arrs[k].shape = <<4, 4>>

IsMatrix33(k) == arrs[k].shape = <<3, 3>>

HasRoom == Len(arrs) < MaxArrs

\* The 3x3 array a caller builds, the 3x3 matrix the matrix33 module returns,
\* the translation and the scale used on array objects, and the value stored.
CallerM33 == << <<1, 2, 3>>, <<4, 5, 6>>, <<7, 8, 9>> >>

HeapRot3 == << <<1, 0, 0>>, <<0, 0, -1>>, <<0, 1, 0>> >>

HeapTranslation == <<1, 2, 3, 999>>

HeapScale == <<2, 3, 4>>

StoredValue == -5

\* The step of a function that returns a new array object on buffer r.buf.
NewObject(op, args, r, shape, src) ==
    /\ mem' = r.mem
    /\ arrs' = Append(arrs, [buf |-> r.buf, shape |-> shape, of |-> src])
    /\ call' = [op |-> op, args |-> args]
    /\ ret' = Returned(Len(arrs) + 1)
    /\ UNCHANGED <<nwrites, elementwiseNone>>

\* The caller builds a 3x3 array.
CallerArray ==
    HasRoom /\ NewObject("caller", <<>>, Alloc(mem, CallerM33), <<3, 3>>, 0)

MakeIdentity ==
    HasRoom /\ NewObject("create_identity", <<>>, Alloc(mem, create_identity), <<4, 4>>, 0)

MakeFromMatrix33 ==
    /\ HasRoom
    /\ \E k \in 1..Len(arrs) :
        /\ IsMatrix33(k)
        /\ NewObject("create_from_matrix33", <<k>>,
                     Alloc(mem, create_from_matrix33(ValueOf(arrs[k]))), <<4, 4>>, 0)

MakeMatrix33View ==
    /\ HasRoom
    /\ \E k \in 1..Len(arrs) :
        /\ IsMatrix44(k)
        /\ NewObject("create_matrix33_view", <<k>>, View33(mem, arrs[k]), <<3, 3>>, k)

MakeFromEulers ==
    HasRoom /\ NewObject("create_from_eulers", <<>>,
                         Alloc(mem, create_from_eulers(HeapRot3)), <<4, 4>>, 0)

MakeFromQuaternion ==
    HasRoom /\ NewObject("create_from_quaternion", <<>>,
                         Alloc(mem, create_from_quaternion(HeapRot3)), <<4, 4>>, 0)

MakeFromInverseOfQuaternion ==
    HasRoom /\ NewObject("create_from_inverse_of_quaternion", <<>>,
                         Alloc(mem, create_from_inverse_of_quaternion(HeapRot3)), <<4, 4>>, 0)

MakeFromXRotation ==
    HasRoom /\ NewObject("create_from_x_rotation", <<>>,
                         Alloc(mem, create_from_x_rotation(HeapRot3)), <<4, 4>>, 0)

MakeFromYRotation ==
    HasRoom /\ NewObject("create_from_y_rotation", <<>>,
                         Alloc(mem, create_from_y_rotation(HeapRot3)), <<4, 4>>, 0)

MakeFromZRotation ==
    HasRoom /\ NewObject("create_from_z_rotation", <<>>,
                         Alloc(mem, create_from_z_rotation(HeapRot3)), <<4, 4>>, 0)

MakeFromTranslation ==
    HasRoom /\ NewObject("create_from_translation", <<>>,
                         Alloc(mem, create_from_translation(HeapTranslation)), <<4, 4>>, 0)

MakeFromScale ==
    HasRoom /\ NewObject("create_from_scale", <<>>,
                         Alloc(mem, create_from_scale(HeapScale)), <<4, 4>>, 0)

\* The caller stores into an array it holds: a[ i, j ] = StoredValue.
Store ==
    /\ nwrites < MaxWrites
    /\ \E k \in 1..Len(arrs) :
        \E i \in 1..arrs[k].shape[1], j \in 1..arrs[k].shape[2] :
            /\ mem' = [mem EXCEPT ![arrs[k].buf][i][j] = StoredValue]
            /\ call' = [op |-> "store", args |-> <<k, i, j>>]
            /\ ret' = Returned(k)
    /\ nwrites' = nwrites + 1
    /\ UNCHANGED <<arrs, elementwiseNone>>

NextHeap ==
    \/ CallerArray
    \/ MakeIdentity
    \/ MakeFromMatrix33
    \/ MakeMatrix33View
    \/ MakeFromEulers
    \/ MakeFromQuaternion
    \/ MakeFromInverseOfQuaternion
    \/ MakeFromXRotation
    \/ MakeFromYRotation
    \/ MakeFromZRotation
    \/ MakeFromTranslation
    \/ MakeFromScale
    \/ Store

SpecHeap == InitHeap /\ [][NextHeap]_vars

----------------------------------------------------------------------------
(* Properties of array objects, checked under SpecHeap.                    *)

IsView(k) == arrs[k].of # 0

\* The array an object was taken of, or the object itself.
Root(k) == IF IsView(k) THEN arrs[k].of ELSE k

IsStore == call.op = "store"

\* Every view reads what the array it was taken of holds.
ViewsAgree ==
    \A k \in 1..Len(arrs) :
        IsView(k) =>
            /\ arrs[k].shape = <<3, 3>>
            /\ \A i, j \in 1..3 :
                ValueOf(arrs[k])[i][j] = ValueOf(arrs[arrs[k].of])[i][j]

\* A store through a view leaves row 3 and column 3 of its array alone.
ViewStoreKeepsBorder ==
    \A k \in 1..Len(arrs) :
        (IsStore' /\ call'.args[1] = k /\ IsView(k)) =>
            \A i, j \in 1..4 :
                (i = 4 \/ j = 4) =>
                    ValueOf(arrs[arrs[k].of])'[i][j] = ValueOf(arrs[arrs[k].of])[i][j]

\* C6: the result of create_matrix33_view shares storage with its argument:
\* after any stores through the view or through m4, view[i][j] = m4[i][j]
\* for i, j in 0..2, and a store through the view changes no entry of row 3
\* or column 3 of m4.
C6_ViewSharesStorage == []ViewsAgree /\ [][ViewStoreKeepsBorder]_vars

\* A store through a view has shown in the array the view was taken of.
C6_Witness ==
    /\ IsStore
    /\ IsView(call.args[1])
    /\ ValueOf(arrs[arrs[call.args[1]].of])[call.args[2]][call.args[3]] = StoredValue

\* C10: apart from create_matrix33_view, no function returns storage shared
\* with an argument or an earlier result: a constructor call changes no
\* array the caller holds, and a store changes only the array stored into,
\* the array it is a view of, and the views of that array.
C10_NoSharedStorage ==
    [][\A k \in 1..Len(arrs) :
          \/ IsStore' /\ Root(call'.args[1]) = Root(k)
          \/ ValueOf(arrs[k])' = ValueOf(arrs[k])]_vars

\* A store into the matrix create_from_matrix33 returned, with the 3x3 array
\* it was made from unchanged.
C10_Witness ==
    /\ IsStore
    /\ IsMatrix44(call.args[1])
    /\ call.args[2] <= 3 /\ call.args[3] <= 3
    /\ ValueOf(arrs[call.args[1]]) =
           [create_from_matrix33(CallerM33)
               EXCEPT ![call.args[2]][call.args[3]] = StoredValue]
    /\ \E k \in 1..Len(arrs) :
        /\ IsMatrix33(k) /\ ~IsView(k)
        /\ ValueOf(arrs[k]) = CallerM33

====
